---- MODULE Spec2Model ----
(***************************************************************************)
(* The three dashboard pages of Reya: Market Definitions, Liquidity         *)
(* Parameters and Market Summaries.  Each page is a script that is run top  *)
(* to bottom on every render: fetch (through a TTL cache), normalize,       *)
(* derive, present.                                                         *)
(*                                                                          *)
(* Numbers are exact rationals n / d (d > 0, reduced) in units of 1e-12^u,   *)
(* u = 0 for every number read from a record; the not-a-number and          *)
(* +infinity of the float columns are separate values.  The constant 1e-12  *)
(* added to a denominator is kept symbolically (Quot).                      *)
(***************************************************************************)
EXTENDS Integers, Sequences, FiniteSets, TLC

VARIABLES now, ticks, cache, lastFetch, page, status, err, raw, df, stages, nreq, kpi

vars == <<now, ticks, cache, lastFetch, page, status, err, raw, df, stages, nreq, kpi>>

(***************************************************************************)
(* Bounds of the model.                                                     *)
(***************************************************************************)
MaxTicks == 2
MaxRows == 2

(***************************************************************************)
(* JSON values of a record field.                                           *)
(***************************************************************************)
Absent == [k |-> "absent", s |-> << >>, n |-> 0]
Null == [k |-> "null", s |-> << >>, n |-> 0]
Str(chars) == [k |-> "str", s |-> chars, n |-> 0]
Num(i) == [k |-> "num", s |-> << >>, n |-> i]

(***************************************************************************)
(* Float values of a table cell.                                            *)
(***************************************************************************)
NaN == [t |-> "nan", n |-> 0, d |-> 1, u |-> 0]
PosInf == [t |-> "inf", n |-> 0, d |-> 1, u |-> 0]
NegInf == [t |-> "-inf", n |-> 0, d |-> 1, u |-> 0]

AbsInt(i) == IF i < 0 THEN -i ELSE i

RECURSIVE GCD(_, _)
GCD(a, b) == IF b = 0 THEN a ELSE GCD(b, a % b)

\* the float num / den * 1e-12^unit; 0 has unit 0
RatU(num, den, unit) ==
    LET g == GCD(AbsInt(num), AbsInt(den))
        sgn == IF den < 0 THEN -1 ELSE 1
    IN [t |-> "fin", n |-> sgn * (num \div g), d |-> sgn * (den \div g),
        u |-> IF num = 0 THEN 0 ELSE unit]

Rat(num, den) == RatU(num, den, 0)

Zero == Rat(0, 1)
One == Rat(1, 1)

IsFin(x) == x.t = "fin"
IsNaN(x) == x.t = "nan"

RECURSIVE Pow10(_)
Pow10(e) == IF e = 0 THEN 1 ELSE 10 * Pow10(e - 1)

UnitDigits == 12
\* x in the finer unit 1e-12^unit
InUnit(x, unit) ==
    IF x.n = 0 \/ x.u = unit THEN x
    ELSE RatU(x.n * Pow10(UnitDigits * (unit - x.u)), x.d, unit)
MaxUnit(x, y) == IF x.u > y.u THEN x.u ELSE y.u

RatMul(x, y) ==
    IF IsFin(x) /\ IsFin(y) THEN RatU(x.n * y.n, x.d * y.d, x.u + y.u) ELSE NaN
RatAdd(x, y) ==
    IF IsFin(x) /\ IsFin(y)
    THEN LET a == InUnit(x, MaxUnit(x, y))
             b == InUnit(y, MaxUnit(x, y))
         IN RatU(a.n * b.d + b.n * a.d, a.d * b.d, MaxUnit(x, y))
    ELSE NaN
RatSub(x, y) ==
    IF IsFin(x) /\ IsFin(y)
    THEN LET a == InUnit(x, MaxUnit(x, y))
             b == InUnit(y, MaxUnit(x, y))
         IN RatU(a.n * b.d - b.n * a.d, a.d * b.d, MaxUnit(x, y))
    ELSE NaN
\* float division: x / 0 is +-infinity, 0 / 0 is not-a-number
RatDiv(x, y) ==
    CASE IsFin(x) /\ IsFin(y) /\ y.n # 0 ->
            LET a == InUnit(x, MaxUnit(x, y))
            IN RatU(a.n * y.d, a.d * y.n, a.u - y.u)
      [] IsFin(x) /\ IsFin(y) /\ y.n = 0 /\ x.n > 0 -> PosInf
      [] IsFin(x) /\ IsFin(y) /\ y.n = 0 /\ x.n < 0 -> NegInf
      [] OTHER -> NaN
RatAbs(x) == IF IsFin(x) THEN RatU(AbsInt(x.n), x.d, x.u) ELSE x
RatGt0(x) == IsFin(x) /\ x.n > 0

(***************************************************************************)
(* pd.to_numeric(..., errors="coerce") on one cell.  A string is a number   *)
(* when it reads [-] digits [. digits] [e [-] digits] with a digit in the   *)
(* mantissa.                                                                *)
(***************************************************************************)
DigitVal == [c \in {"0", "1", "2", "3", "4", "5", "6", "7", "8", "9"} |->
    CASE c = "0" -> 0 [] c = "1" -> 1 [] c = "2" -> 2 [] c = "3" -> 3
      [] c = "4" -> 4 [] c = "5" -> 5 [] c = "6" -> 6 [] c = "7" -> 7
      [] c = "8" -> 8 [] c = "9" -> 9]

IsDigit(c) == c \in DOMAIN DigitVal
AllDigits(s) == \A i \in 1..Len(s) : IsDigit(s[i])

RECURSIVE DigitsVal(_)
DigitsVal(s) ==
    IF s = << >> THEN 0
    ELSE 10 * DigitsVal(SubSeq(s, 1, Len(s) - 1)) + DigitVal[s[Len(s)]]

IndexOf(s, c) ==
    IF \E i \in 1..Len(s) : s[i] = c
    THEN CHOOSE i \in 1..Len(s) : s[i] = c /\ \A j \in 1..(i - 1) : s[j] # c
    ELSE 0

\* the mantissa "digits[.digits]" as a rational, NaN when it is no mantissa
ParseMantissa(s) ==
    LET dot == IndexOf(s, ".")
        ip == IF dot = 0 THEN s ELSE SubSeq(s, 1, dot - 1)
        fp == IF dot = 0 THEN << >> ELSE SubSeq(s, dot + 1, Len(s))
    IN IF AllDigits(ip) /\ AllDigits(fp) /\ Len(ip) + Len(fp) > 0
       THEN Rat(DigitsVal(ip \o fp), Pow10(Len(fp)))
       ELSE NaN

\* the exponent "[-]digits" as [ok, neg, e]
ParseExponent(s) ==
    LET neg == Len(s) > 0 /\ s[1] = "-"
        ds == IF neg THEN Tail(s) ELSE s
    IN [ok |-> Len(ds) > 0 /\ AllDigits(ds), neg |-> neg,
        e |-> IF Len(ds) > 0 /\ AllDigits(ds) THEN DigitsVal(ds) ELSE 0]

ParseUnsigned(s) ==
    LET ei == IndexOf(s, "e")
        m == ParseMantissa(IF ei = 0 THEN s ELSE SubSeq(s, 1, ei - 1))
        x == ParseExponent(IF ei = 0 THEN <<"0">> ELSE SubSeq(s, ei + 1, Len(s)))
    IN IF IsFin(m) /\ x.ok
       THEN IF x.neg THEN Rat(m.n, m.d * Pow10(x.e)) ELSE Rat(m.n * Pow10(x.e), m.d)
       ELSE NaN

ParseFloat(s) ==
    IF Len(s) > 0 /\ s[1] = "-"
    THEN LET u == ParseUnsigned(Tail(s)) IN IF IsFin(u) THEN Rat(-u.n, u.d) ELSE NaN
    ELSE ParseUnsigned(s)

\* mutant: a second coercion that fills the missing values with 0
ToNumericCellZero(x) == IF IsFin(x) THEN RatU(x.n, x.d, x.u) ELSE Zero
\* a cell of a column that is float64 already: the float itself
ToNumericCell(x) == IF IsFin(x) THEN RatU(x.n, x.d, x.u) ELSE x

ToNumeric(v) ==
    IF "t" \in DOMAIN v THEN ToNumericCell(v)
    ELSE CASE v.k = "num" -> Rat(v.n, 1)
           [] v.k = "str" -> ParseFloat(v.s)
           [] OTHER -> NaN

FillNa(x, dflt) == IF IsNaN(x) THEN dflt ELSE x

(***************************************************************************)
(* pd.DataFrame(data): the columns are the keys that occur in some record;  *)
(* a record without the key holds a missing value in that column.           *)
(***************************************************************************)
Columns(arr, fields) == {f \in fields : \E i \in 1..Len(arr) : arr[i][f] # Absent}

\* how a page script ends: it ran to its last line with `table`, or an
\* exception left it at stage `at` (the stages before `at` have run)
NoTable == << >>
AllStages == {"normalize", "derive", "present"}
\* the indicators of a page, before any is computed
NoKpi ==
    [total_markets |-> 0, max_leverage_value |-> NaN, markets_with_max |-> << >>,
     total_volume_24h |-> NaN, total_oi |-> NaN, total_long_oi |-> NaN,
     total_short_oi |-> NaN]
Ran(table) == [error |-> "none", table |-> table, stages |-> AllStages, kpi |-> NoKpi]
Raised(e, done) == [error |-> e, table |-> NoTable, stages |-> done, kpi |-> NoKpi]

\* Series.nunique(): the distinct values, the missing ones left out
NUnique(t, col) == Cardinality({t[i][col] : i \in 1..Len(t)} \ {Absent, Null})

\* the cells of column col, top to bottom
Column(t, col) == [i \in 1..Len(t) |-> t[i][col]]

(***************************************************************************)
(* Liquidity Parameters page.                                               *)
(***************************************************************************)
LiqFields == {"symbol", "depth", "velocityMultiplier"}

\* x / (y + 1e-12), the 1e-12 kept as a symbol
EpsQuot(x, y) == [t |-> "quot", num |-> x, den |-> y]
EpsInf == [t |-> "inf", num |-> Zero, den |-> Zero]

LiqCoerce(v) == FillNa(ToNumeric(v), Zero)

LiqNormalize(arr) ==
    IF "depth" \notin Columns(arr, LiqFields) \/ "velocityMultiplier" \notin Columns(arr, LiqFields)
    THEN Raised("KeyError", {"normalize"})
    ELSE Ran([i \in 1..Len(arr) |->
                [symbol |-> arr[i].symbol,
                 depth |-> LiqCoerce(arr[i].depth),
                 velocityMultiplier |-> LiqCoerce(arr[i].velocityMultiplier)]])

\* mutant: the depth alone
LiquidityScoreDepthOnly(r) == r.depth
LiquidityScore(r) == RatMul(r.depth, r.velocityMultiplier)
\* mutant: the quotient the other way round
StabilityScoreInverse(r) == EpsQuot(r.velocityMultiplier, r.depth)
StabilityScore(r) == EpsQuot(r.depth, r.velocityMultiplier)
\* mutant: the quotient without the depth > 0 branch
EfficiencyScoreUnguarded(r) == RatDiv(LiquidityScore(r), r.depth)
EfficiencyScore(r) == IF RatGt0(r.depth) THEN RatDiv(LiquidityScore(r), r.depth) ELSE Zero
\* mutant: the quotient without the 1e-12
RiskIndexRaw(r) == RatDiv(r.velocityMultiplier, r.depth)
RiskIndex(r) == EpsQuot(r.velocityMultiplier, r.depth)
\* mutant: the smoothed quotient without the liquidityScore > 0 branch
UndervaluedMetricSmoothed(r) == EpsQuot(r.depth, LiquidityScore(r))
UndervaluedMetric(r) ==
    IF RatGt0(LiquidityScore(r)) THEN EpsQuot(r.depth, LiquidityScore(r)) ELSE EpsInf

RECURSIVE LCMDen(_)
LCMDen(xs) ==
    IF xs = << >> THEN 1
    ELSE LET l == LCMDen(Tail(xs)) IN (l \div GCD(l, Head(xs).d)) * Head(xs).d

RECURSIVE SumInt(_)
SumInt(is) == IF is = << >> THEN 0 ELSE Head(is) + SumInt(Tail(is))

\* Series.var(ddof=0): the mean squared deviation from the mean, over N
RECURSIVE UnitOf(_)
UnitOf(xs) ==
    IF xs = << >> THEN 0
    ELSE IF Head(xs).u > UnitOf(Tail(xs)) THEN Head(xs).u ELSE UnitOf(Tail(xs))

PopVar(xs) ==
    LET N == Len(xs)
        D == LCMDen(xs)
        U == UnitOf(xs)
        a == [i \in 1..N |-> InUnit(xs[i], U).n * (D \div xs[i].d)]
        sq == [i \in 1..N |-> a[i] * a[i]]
    IN IF N = 0 THEN NaN
       ELSE RatU(N * SumInt(sq) - SumInt(a) * SumInt(a), N * N * D * D, 2 * U)

IsCloseAtolDigits == 8
\* np.isclose(x, 0.0): |x| <= 1e-8 (atol) + 1e-5 (rtol) * 0
IsCloseZero(x) ==
    /\ IsFin(x)
    /\ CASE x.u = 0 -> AbsInt(x.n) <= x.d \div Pow10(IsCloseAtolDigits)
         [] x.u = 1 ->
                (AbsInt(x.n) + Pow10(UnitDigits - IsCloseAtolDigits) - 1)
                    \div Pow10(UnitDigits - IsCloseAtolDigits) <= x.d
         [] OTHER -> TRUE

\* mutant: the fallback only for a variance of exactly zero
GlobalVarianceExact(scores) ==
    LET v == PopVar(scores) IN IF v = Zero THEN One ELSE v
GlobalVariance(scores) ==
    LET v == PopVar(scores) IN IF IsCloseZero(v) THEN One ELSE v

\* x > 1e-12: a positive n / d in unit 1 exceeds 1e-12 (n, d < 2^31), in
\* unit 1e-12 it does when n > d, in a finer unit it does not
Exceeds1e12(x) ==
    /\ RatGt0(x)
    /\ CASE x.u = 0 -> TRUE
         [] x.u = 1 -> x.n > x.d
         [] OTHER -> FALSE

\* mutant: the floor of the logarithm's argument at 1 instead of 1e-12
MaxEpsOne(x) ==
    IF RatGt0(x) /\ x.u = 0 /\ x.n > x.d THEN [eps |-> FALSE, x |-> x]
    ELSE [eps |-> TRUE, x |-> Zero]
\* max(x, 1e-12)
MaxEps(x) == IF Exceeds1e12(x) THEN [eps |-> FALSE, x |-> x] ELSE [eps |-> TRUE, x |-> Zero]
\* np.log(arg) / den
LogOver(arg, den) == [t |-> "log", arg |-> arg, den |-> den]

AttractivenessIndex(r, gv) == LogOver(MaxEps(RatMul(r.depth, r.velocityMultiplier)), gv)

LiqDerive(t) ==
    LET gv == GlobalVariance([i \in 1..Len(t) |-> LiquidityScore(t[i])])
    IN [i \in 1..Len(t) |->
          [symbol |-> t[i].symbol,
           depth |-> t[i].depth,
           velocityMultiplier |-> t[i].velocityMultiplier,
           liquidityScore |-> LiquidityScore(t[i]),
           stabilityScore |-> StabilityScore(t[i]),
           efficiencyScore |-> EfficiencyScore(t[i]),
           riskIndex |-> RiskIndex(t[i]),
           undervaluedMetric |-> UndervaluedMetric(t[i]),
           attractivenessIndex |-> AttractivenessIndex(t[i], gv)]]

LiquidityPage(arr) ==
    LET norm == LiqNormalize(arr)
    IN IF norm.error # "none" THEN norm ELSE Ran(LiqDerive(norm.table))

(***************************************************************************)
(* Market Summaries page.                                                   *)
(***************************************************************************)
numeric_cols == {"longOiQty", "shortOiQty", "oiQty", "fundingRate",
    "longFundingValue", "shortFundingValue", "fundingRateVelocity",
    "volume24h", "pxChange24h", "throttledOraclePrice", "throttledPoolPrice"}

\* the timestamp columns, converted when present
TsFields == {"updatedAt", "pricesUpdatedAt"}
TsDerived == {"updatedAt_dt", "pricesUpdatedAt_dt"}

SumFields == numeric_cols \cup {"symbol"} \cup TsFields

\* mutant: the liquidity page's zero sentinel on the summary page
SumCoerceZero(cols, v, c) == IF c \in cols THEN FillNa(ToNumeric(v), Zero) ELSE Zero
\* one cell of column c: coerced when the column exists, else not-a-number
SumCoerce(cols, v, c) == IF c \in cols THEN ToNumeric(v) ELSE NaN

ensure_numeric(arr) ==
    LET cols == Columns(arr, SumFields)
    IN [i \in 1..Len(arr) |->
          [c \in SumFields |->
              IF c \in numeric_cols THEN SumCoerce(cols, arr[i][c], c) ELSE arr[i][c]]]

\* Series.replace(0, np.nan)
ReplaceZero(x) == IF IsFin(x) /\ x.n = 0 THEN NaN ELSE x

OiImbalance(r) == RatSub(r.longOiQty, r.shortOiQty)
PriceSpread(r) == RatSub(r.throttledPoolPrice, r.throttledOraclePrice)
FundingPressure(r) == RatMul(r.fundingRate, OiImbalance(r))
\* mutant: the quotient by the price as it is
NormalizedFundingRaw(r) == RatDiv(r.fundingRate, r.throttledOraclePrice)
NormalizedFunding(r) == RatDiv(r.fundingRate, ReplaceZero(r.throttledOraclePrice))
AbsPriceSpread(r) == RatAbs(PriceSpread(r))

SumDerived == {"oiImbalance", "priceSpread", "fundingPressure", "normalizedFunding",
    "absPriceSpread"}

\* a cell of a *_dt column: a local date and time (the instant, in seconds
\* since the epoch and microseconds), pd.NaT, or nothing when the timestamp
\* column does not exist
DateTime(sec, micro) == [t |-> "datetime", sec |-> sec, micro |-> micro]
NaT == [t |-> "NaT", sec |-> 0, micro |-> 0]
NoColumn == [t |-> "nocolumn", sec |-> 0, micro |-> 0]

\* a digit string this long or longer is past year 9999 as milliseconds
OutOfRangeDigits == 16

NotAnInt == [ok |-> FALSE, huge |-> FALSE, neg |-> FALSE, sec |-> 0, ms |-> 0]

\* int(x) as milliseconds, split into whole seconds and milliseconds:
\* a string is an integer when it reads [-]digits
PyInt(v) ==
    CASE v.k = "num" ->
            [ok |-> TRUE, huge |-> FALSE, neg |-> v.n < 0,
             sec |-> AbsInt(v.n) \div 1000, ms |-> AbsInt(v.n) % 1000]
      [] v.k = "str" ->
            LET neg == Len(v.s) > 0 /\ v.s[1] = "-"
                ds == IF neg THEN Tail(v.s) ELSE v.s
                L == Len(ds)
            IN IF L = 0 \/ ~AllDigits(ds) THEN NotAnInt
               ELSE IF L >= OutOfRangeDigits THEN [NotAnInt EXCEPT !.ok = TRUE, !.huge = TRUE]
               ELSE [ok |-> TRUE, huge |-> FALSE, neg |-> neg,
                     sec |-> DigitsVal(SubSeq(ds, 1, L - 3)),
                     ms |-> DigitsVal(IF L <= 3 THEN ds ELSE SubSeq(ds, L - 2, L))]
      [] OTHER -> NotAnInt

\* datetime.fromtimestamp(ms / 1000.0); before the epoch as POSIX localtime
\* gives it
FromTimestamp(x) ==
    IF ~x.neg THEN DateTime(x.sec, x.ms * 1000)
    ELSE IF x.ms = 0 THEN DateTime(-x.sec, 0)
    ELSE DateTime(-x.sec - 1, (1000 - x.ms) * 1000)

\* mutant: the time cut to whole seconds
ts_to_dt_seconds(v) ==
    LET x == PyInt(v)
    IN IF x.ok /\ ~x.huge THEN [FromTimestamp(x) EXCEPT !.micro = 0] ELSE NaT
\* try: datetime.fromtimestamp(int(x) / 1000.0); except Exception: pd.NaT
ts_to_dt(v) ==
    LET x == PyInt(v)
    IN IF x.ok /\ ~x.huge THEN FromTimestamp(x) ELSE NaT

ColumnOfDt == [c \in TsDerived |-> IF c = "updatedAt_dt" THEN "updatedAt" ELSE "pricesUpdatedAt"]

SumTimestamps(t) ==
    LET cols == Columns(t, TsFields)
    IN [i \in 1..Len(t) |->
          [c \in SumFields \cup TsDerived |->
              IF c \in TsDerived
              THEN IF ColumnOfDt[c] \in cols THEN ts_to_dt(t[i][ColumnOfDt[c]]) ELSE NoColumn
              ELSE t[i][c]]]

SumDerive(t) ==
    [i \in 1..Len(t) |->
        [c \in SumFields \cup TsDerived \cup SumDerived |->
            CASE c = "oiImbalance" -> OiImbalance(t[i])
              [] c = "priceSpread" -> PriceSpread(t[i])
              [] c = "fundingPressure" -> FundingPressure(t[i])
              [] c = "normalizedFunding" -> NormalizedFunding(t[i])
              [] c = "absPriceSpread" -> AbsPriceSpread(t[i])
              [] OTHER -> t[i][c]]]

RECURSIVE SumPresent(_)
SumPresent(xs) ==
    IF xs = << >> THEN Zero
    ELSE IF IsNaN(Head(xs)) THEN SumPresent(Tail(xs))
    ELSE RatAdd(Head(xs), SumPresent(Tail(xs)))

CountPresent(xs) == Cardinality({i \in 1..Len(xs) : ~IsNaN(xs[i])})

\* mutant: Series.sum() without min_count, 0 when nothing is present
SumSkipNa(xs) == SumPresent(xs)
\* Series.sum(min_count=1)
SumMinCount1(xs) == IF CountPresent(xs) < 1 THEN NaN ELSE SumPresent(xs)

SumKpis(t) ==
    [NoKpi EXCEPT !.total_markets = NUnique(t, "symbol"),
                  !.total_volume_24h = SumMinCount1(Column(t, "volume24h")),
                  !.total_oi = SumMinCount1(Column(t, "oiQty")),
                  !.total_long_oi = SumMinCount1(Column(t, "longOiQty")),
                  !.total_short_oi = SumMinCount1(Column(t, "shortOiQty"))]

\* the leaderboards and the full table select and sort by "symbol":
\* df[["symbol", "fundingRate"]] raises KeyError without a symbol column
SumLeaders(arr) == IF "symbol" \in Columns(arr, SumFields) THEN "none" ELSE "KeyError"

SummaryPage(arr) ==
    LET t == SumDerive(SumTimestamps(ensure_numeric(arr)))
    IN IF SumLeaders(arr) # "none"
       THEN [Raised(SumLeaders(arr), AllStages) EXCEPT !.kpi = SumKpis(t)]
       ELSE [Ran(t) EXCEPT !.kpi = SumKpis(t)]

(***************************************************************************)
(* Market Definitions page.                                                 *)
(***************************************************************************)
DefFields == {"symbol", "maxLeverage"}

DefNormalize(arr) ==
    IF "maxLeverage" \notin Columns(arr, DefFields)
    THEN Raised("KeyError", {"normalize"})
    ELSE Ran([i \in 1..Len(arr) |->
                [symbol |-> arr[i].symbol, maxLeverage |-> ToNumeric(arr[i].maxLeverage)]])

\* x < y for two numbers
RatLess(x, y) ==
    LET a == InUnit(x, MaxUnit(x, y))
        b == InUnit(y, MaxUnit(x, y))
    IN a.n * b.d < b.n * a.d

\* mutant: the first value present instead of the largest
SeriesFirst(xs) ==
    IF \A i \in 1..Len(xs) : IsNaN(xs[i]) THEN NaN
    ELSE xs[CHOOSE i \in 1..Len(xs) : ~IsNaN(xs[i]) /\ \A j \in 1..(i - 1) : IsNaN(xs[j])]
\* Series.max(): the largest value present, not-a-number when none is
SeriesMax(xs) ==
    IF \A i \in 1..Len(xs) : IsNaN(xs[i]) THEN NaN
    ELSE xs[CHOOSE i \in 1..Len(xs) :
                ~IsNaN(xs[i]) /\ \A j \in 1..Len(xs) : ~IsNaN(xs[j]) => ~RatLess(xs[i], xs[j])]

\* df[df["maxLeverage"] == max_leverage_value]["symbol"].tolist(): a missing
\* value equals nothing
MarketsWithMax(t, mx) ==
    Column(SelectSeq(t, LAMBDA r : ~IsNaN(mx) /\ r.maxLeverage = mx), "symbol")

\* the indicators of the definitions page: nunique raises KeyError without
\* a symbol column, ", ".join raises TypeError on a symbol that is no string
DefKpis(arr, t) ==
    LET mx == SeriesMax(Column(t, "maxLeverage"))
        listed == MarketsWithMax(t, mx)
    IN IF "symbol" \notin Columns(arr, DefFields) THEN Raised("KeyError", {"normalize", "present"})
       ELSE IF \E i \in 1..Len(listed) : listed[i].k # "str"
            THEN Raised("TypeError", {"normalize", "present"})
       ELSE [Ran(t) EXCEPT !.kpi = [NoKpi EXCEPT !.total_markets = NUnique(t, "symbol"),
                                                  !.max_leverage_value = mx,
                                                  !.markets_with_max = listed]]

\* Market Details Explorer: the first option of the selectbox is selected;
\* df[df["symbol"] == selected].iloc[0] raises IndexError when no row
\* equals it (a missing symbol equals nothing)
DefExplore(t) ==
    IF Len(t) > 0 /\ t[1].symbol.k = "str" THEN "none" ELSE "IndexError"

\* the coercion of maxLeverage repeated before the charts
DefRecoerce(t) == [i \in 1..Len(t) |-> [t[i] EXCEPT !.maxLeverage = ToNumeric(@)]]

DefinitionsPage(arr) ==
    LET norm == DefNormalize(arr)
        kpis == DefKpis(arr, norm.table)
    IN IF norm.error # "none" THEN norm
       ELSE IF kpis.error # "none" THEN kpis
       ELSE IF DefExplore(norm.table) # "none"
            THEN [Raised(DefExplore(norm.table), {"normalize", "present"}) EXCEPT !.kpi = kpis.kpi]
       ELSE [kpis EXCEPT !.table = DefRecoerce(norm.table)]

(***************************************************************************)
(* The fetchers: requests.get, raise_for_status, json, behind               *)
(* st.cache_data(ttl): one slot per function, valid while now < expires.    *)
(***************************************************************************)
Pages == {"defs", "liq", "sum"}

TTLDefinitions == 300
TTLLiquidity == 300
TTLSummary == 1

TTL(p) == CASE p = "defs" -> TTLDefinitions [] p = "liq" -> TTLLiquidity [] p = "sum" -> TTLSummary

\* requests.get raises (connection, timeout), raise_for_status raises on a
\* non-2xx status, json() raises on a malformed body
FailureKinds(p) ==
    IF p = "sum" THEN {"network_error", "timeout", "http_error", "bad_json"}
    ELSE {"network_error", "http_error", "bad_json"}

NoEntry == [valid |-> FALSE, data |-> << >>, expires |-> 0]
\* history: the last successful GET of an endpoint
NoFetch == [valid |-> FALSE, data |-> << >>, at |-> 0]

\* mutant: an entry never expires
CacheHitForever(p) == cache[p].valid
CacheHit(p) == cache[p].valid /\ now < cache[p].expires

\* mutant: a failed GET is tried once more
HttpGetRetry(outcome, body) ==
    IF outcome = "ok" THEN [error |-> "none", data |-> body, requests |-> 1]
    ELSE [error |-> outcome, data |-> << >>, requests |-> 2]
\* the body of the fetcher: one GET, the parsed array or the exception
HttpGet(outcome, body) ==
    IF outcome = "ok" THEN [error |-> "none", data |-> body, requests |-> 1]
    ELSE [error |-> outcome, data |-> << >>, requests |-> 1]

\* mutant: the slot holds the records with their numeric fields coerced
CacheStoreCoerced(p, data) ==
    [valid |-> TRUE,
     data |-> [i \in 1..Len(data) |->
                 [c \in DOMAIN data[i] |->
                     IF c \in numeric_cols \cup {"depth", "velocityMultiplier", "maxLeverage"}
                     THEN ToNumeric(data[i][c]) ELSE data[i][c]]],
     expires |-> now + TTL(p)]
\* what a successful call stores in the slot
CacheStore(p, data) == [valid |-> TRUE, data |-> data, expires |-> now + TTL(p)]

\* mutant: a failed GET is memoized like a result, as an empty array
CachedCallMemoFailure(p, outcome, body) ==
    IF CacheHit(p)
    THEN [error |-> "none", data |-> cache[p].data, requests |-> 0,
          entry |-> cache[p], fetched |-> lastFetch[p]]
    ELSE LET r == HttpGet(outcome, body)
         IN IF r.error = "none"
            THEN [error |-> "none", data |-> r.data, requests |-> r.requests,
                  entry |-> CacheStore(p, r.data),
                  fetched |-> [valid |-> TRUE, data |-> body, at |-> now]]
            ELSE [error |-> r.error, data |-> << >>, requests |-> r.requests,
                  entry |-> CacheStore(p, << >>), fetched |-> lastFetch[p]]
\* a call of the cached fetcher of page p
CachedCall(p, outcome, body) ==
    IF CacheHit(p)
    THEN [error |-> "none", data |-> cache[p].data, requests |-> 0,
          entry |-> cache[p], fetched |-> lastFetch[p]]
    ELSE LET r == HttpGet(outcome, body)
         IN IF r.error = "none"
            THEN [error |-> "none", data |-> r.data, requests |-> r.requests,
                  entry |-> CacheStore(p, r.data),
                  fetched |-> [valid |-> TRUE, data |-> body, at |-> now]]
            ELSE [error |-> r.error, data |-> << >>, requests |-> r.requests,
                  entry |-> cache[p], fetched |-> lastFetch[p]]

(***************************************************************************)
(* What the endpoints serve.                                                *)
(***************************************************************************)
SymbolNames == <<"BTCRUSDPERP", "ETHRUSDPERP", "SOLRUSDPERP", "XRPRUSDPERP">>
\* a symbol is one unit: it is never parsed
SymbolOf(i) == Str(<<SymbolNames[((i - 1) % Len(SymbolNames)) + 1]>>)

LiqRec(sym, d, v) == [symbol |-> sym, depth |-> d, velocityMultiplier |-> v]
DefRec(sym, l) == [symbol |-> sym, maxLeverage |-> l]
SumRec(sym, fr, op, pp, lo, so, other, ts) ==
    [c \in SumFields |->
        CASE c = "symbol" -> sym
          [] c = "updatedAt" -> ts[1]
          [] c = "pricesUpdatedAt" -> ts[2]
          [] c = "fundingRate" -> fr
          [] c = "throttledOraclePrice" -> op
          [] c = "throttledPoolPrice" -> pp
          [] c = "longOiQty" -> lo
          [] c = "shortOiQty" -> so
          [] OTHER -> other]

ServedDefinitions ==
    { << DefRec(SymbolOf(1), Str(<<"2", "5">>)), DefRec(SymbolOf(2), Null) >>,
      << DefRec(SymbolOf(3), Absent) >> }

ServedLiquidity ==
    { << LiqRec(SymbolOf(1), Str(<<"5">>), Str(<<"2">>)), LiqRec(SymbolOf(2), Null, Num(1)) >>,
      << LiqRec(SymbolOf(3), Absent, Str(<<"2">>)) >> }

ServedSummary ==
    { << SumRec(SymbolOf(1), Str(<<"1">>), Str(<<"2">>), Num(3), Num(2), Num(1), Absent,
                <<Num(1500), Absent>>),
         SumRec(SymbolOf(2), Null, Num(0), Absent, Null, Num(1), Absent, <<Null, Absent>>) >>,
      << SumRec(SymbolOf(3), Num(1), Str(<<"x">>), Null, Null, Null, Null,
                <<Absent, Absent>>) >> }

Served(p) ==
    CASE p = "defs" -> ServedDefinitions [] p = "liq" -> ServedLiquidity
      [] p = "sum" -> ServedSummary

(***************************************************************************)
(* One render of a page: the script from its first to its last line.        *)
(***************************************************************************)
\* Market Summaries wraps the call in try/except: st.error, st.stop
\* the other two pages call the fetcher bare: the exception leaves the script
OnFetchError(p) == IF p = "sum" THEN "stopped" ELSE "raised"

\* mutant: a page rendered before keeps the table of its earlier render
PageScriptCarried(p, arr) ==
    IF page = p /\ err = "none"
    THEN [error |-> "none", table |-> df, stages |-> stages, kpi |-> kpi]
    ELSE CASE p = "defs" -> DefinitionsPage(arr)
           [] p = "liq" -> LiquidityPage(arr)
           [] p = "sum" -> SummaryPage(arr)
PageScript(p, arr) ==
    CASE p = "defs" -> DefinitionsPage(arr)
      [] p = "liq" -> LiquidityPage(arr)
      [] p = "sum" -> SummaryPage(arr)

\* mutant: one slot shared by the three fetchers
SlotsShared(p, entry) == [q \in Pages |-> entry]
\* the slots after a call of the fetcher of page p: its own slot is written
Slots(p, entry) == [cache EXCEPT ![p] = entry]

\* the state a render of page p leaves: f is the fetcher's call, res the
\* end of the script
Rendered(p, f, res) ==
    /\ page' = p
    /\ nreq' = f.requests
    /\ cache' = Slots(p, f.entry)
    /\ lastFetch' = [lastFetch EXCEPT ![p] = f.fetched]
    /\ raw' = f.data
    /\ df' = res.table
    /\ stages' = res.stages
    /\ err' = res.error
    /\ kpi' = res.kpi
    /\ status' = CASE f.error # "none" -> OnFetchError(p)
                   [] res.error # "none" -> "raised"
                   [] OTHER -> "ok"
    /\ UNCHANGED <<now, ticks>>

\* the script of page p on what the call gave it
RunScript(p, f) == IF f.error = "none" THEN PageScript(p, f.data) ELSE Raised(f.error, {})

\* the render of page p when the endpoint answers `outcome` with `body`
RenderWith(p, outcome, body) ==
    Rendered(p, CachedCall(p, outcome, body), RunScript(p, CachedCall(p, outcome, body)))

\* what the endpoint may answer to one GET: an array, or a failure; it is
\* not asked on a cache hit
Answers(p, bodies) ==
    IF CacheHit(p) THEN {[outcome |-> "ok", body |-> cache[p].data]}
    ELSE {[outcome |-> "ok", body |-> b] : b \in bodies}
            \cup {[outcome |-> k, body |-> << >>] : k \in FailureKinds(p)}

Render(p, bodies) == \E a \in Answers(p, bodies) : RenderWith(p, a.outcome, a.body)

(***************************************************************************)
(* Pools of field values for the page scripts taken alone.                  *)
(***************************************************************************)
DepthPool == {Absent, Null, Str(<<"x">>), Str(<<"0">>), Str(<<"1", "0", "0">>), Str(<<"-", "1">>)}
VelocityPool == {Absent, Str(<< >>), Str(<<"0">>), Str(<<"2">>)}
\* small magnitudes, apart: a variance below 1e-8 needs scores below 1e-4
SmallDepthPool == {Str(<<"0">>), Str(<<"1", "e", "-", "4">>), Str(<<"0", ".", "0", "0", "0", "2">>)}
SmallVelocityPool == {Null, Num(1)}

FundingPool == {Null, Str(<<"1">>)}
OraclePool == {Absent, Str(<<"0">>), Str(<<"2">>), Str(<<"x">>)}
\* <<throttledPoolPrice, longOiQty, every other numeric field>>
RestPool == {<<Absent, Str(<<"x">>), Absent>>, <<Num(1), Str(<<"2">>), Str(<<"5">>)>>,
             <<Num(1), Str(<<"2">>), Null>>}

\* <<updatedAt, pricesUpdatedAt>>
UpdatedAtPool ==
    {Absent, Null, Num(1500), Str(<<"x">>), Str(<<"1", "2", ".", "5">>),
     Str(<<"1", "7", "0", "0", "0", "0", "0", "0", "0", "0", "1", "2", "3">>),
     Str(<<"9", "9", "9", "9", "9", "9", "9", "9", "9", "9", "9", "9", "9", "9", "9", "9">>)}
PricesUpdatedAtPool == {Absent, Str(<<"2", "0", "0", "0">>)}

DefSymbolPool == {SymbolOf(1), SymbolOf(2), Null}
LeveragePool == {Absent, Null, Str(<<"x">>), Str(<<"2", "5">>), Str(<<"1", "0">>), Num(25)}

\* the pools the records of one array of page p are drawn from
RowPools(p) ==
    CASE p = "defs" -> {DefSymbolPool \X LeveragePool}
      [] p = "liq" -> {DepthPool \X VelocityPool, SmallDepthPool \X SmallVelocityPool}
      [] p = "sum" -> {FundingPool \X OraclePool \X RestPool \X {<<Absent, Absent>>},
                       {Str(<<"1">>)} \X {Str(<<"2">>)} \X {<<Num(1), Str(<<"2">>), Null>>}
                           \X (UpdatedAtPool \X PricesUpdatedAtPool)}

\* record i of an array of page p from the drawn values v
MkRow(p, i, v) ==
    CASE p = "defs" -> DefRec(v[1], v[2])
      [] p = "liq" -> LiqRec(SymbolOf(i), v[1], v[2])
      [] p = "sum" -> SumRec(SymbolOf(i), v[1], v[2], v[3][1], v[3][2], Num(3), v[3][3], v[4])

\* time passes between renders
TickSteps == {1, TTLLiquidity - 1}
Tick ==
    /\ ticks < MaxTicks
    /\ \E dt \in TickSteps : now' = now + dt
    /\ ticks' = ticks + 1
    /\ UNCHANGED <<cache, lastFetch, page, status, err, raw, df, stages, nreq, kpi>>

Init ==
    /\ now = 0
    /\ ticks = 0
    /\ cache = [p \in Pages |-> NoEntry]
    /\ lastFetch = [p \in Pages |-> NoFetch]
    /\ page = "none"
    /\ status = "none"
    /\ err = "none"
    /\ raw = << >>
    /\ df = NoTable
    /\ stages = {}
    /\ nreq = 0
    /\ kpi = NoKpi

RenderPage == \E p \in Pages : Render(p, Served(p))

Next == Tick \/ RenderPage

Spec == Init /\ [][Next]_vars

(***************************************************************************)
(* The page scripts taken alone: the first render of one page, the endpoint *)
(* answering with any array of the pools.                                   *)
(***************************************************************************)
FirstRender ==
    /\ page = "none"
    /\ \E p \in Pages : \E pool \in RowPools(p) : \E n \in 0..MaxRows :
          \E f \in [1..n -> pool] : Render(p, {[i \in 1..n |-> MkRow(p, i, f[i])]})

NextPipe == FirstRender

SpecPipe == Init /\ [][NextPipe]_vars

(***************************************************************************)
(* Properties.                                                              *)
(***************************************************************************)
AllFailureKinds == UNION {FailureKinds(p) : p \in Pages}
FetchFailed == page # "none" /\ err \in AllFailureKinds
\* a step that is a render of page p (time stands still during a render)
IsRenderOf(p) == page' = p /\ now' = now

\* C1: after a successful fetch at time t, a call of the same fetcher before
\* t + TTL issues no request and returns the array fetched at t; a call after
\* t + TTL issues exactly one request and, when it succeeds, the slot and the
\* returned array are the newly served array as a whole.
C1_CachedWithinTTL ==
    [][\A p \in Pages :
        (lastFetch[p].valid /\ IsRenderOf(p)) =>
            /\ now < lastFetch[p].at + TTL(p) =>
                  /\ nreq' = 0
                  /\ raw' = lastFetch[p].data
                  /\ cache'[p] = cache[p]
            /\ now > lastFetch[p].at + TTL(p) =>
                  /\ nreq' = 1
                  /\ err' \notin AllFailureKinds =>
                        /\ raw' \in Served(p)
                        /\ cache'[p].data = raw'
                        /\ cache'[p].expires = now + TTL(p)
                        /\ lastFetch'[p] = [valid |-> TRUE, data |-> raw', at |-> now]]_vars

\* a render served from the cache at the last instant before the entry expires
C1_Witness ==
    /\ page = "liq" /\ status = "ok" /\ nreq = 0
    /\ lastFetch["liq"].valid
    /\ now = lastFetch["liq"].at + TTLLiquidity - 1
    /\ raw = lastFetch["liq"].data

\* C2: on every page a failed fetch is caught by the page, which shows the
\* error and stops: no later stage of the script runs.
C2_FetchFailureShown ==
    FetchFailed => status = "stopped" /\ stages = {} /\ df = NoTable

\* C3: one render issues at most one request; a failed request is not
\* retried and leaves the render without array and without table; otherwise
\* the render works on the whole array of the slot.
C3_OneRequestWholeArray ==
    page # "none" =>
        /\ nreq <= 1
        /\ err \in AllFailureKinds =>
              nreq = 1 /\ raw = << >> /\ df = NoTable /\ stages = {} /\ status # "ok"
        /\ err \notin AllFailureKinds =>
              /\ raw \in Served(page)
              /\ raw = cache[page].data
              /\ raw = lastFetch[page].data

\* a failed request while an older array is still in the slot
C3_Witness == FetchFailed /\ nreq = 1 /\ cache[page].valid /\ raw = << >>

(***************************************************************************)
(* Properties of the page scripts.  What a field value denotes is written   *)
(* out here, value by value, for the values of the pools.                   *)
(***************************************************************************)
Literals ==
    { <<Str(<<"0">>), 0, 1>>, <<Str(<<"1">>), 1, 1>>, <<Str(<<"2">>), 2, 1>>,
      <<Str(<<"5">>), 5, 1>>, <<Str(<<"1", "0">>), 10, 1>>, <<Str(<<"2", "5">>), 25, 1>>,
      <<Str(<<"1", "0", "0">>), 100, 1>>, <<Str(<<"-", "1">>), -1, 1>>,
      <<Str(<<"1", "e", "-", "4">>), 1, 10000>>,
      <<Str(<<"0", ".", "0", "0", "0", "2">>), 1, 5000>>,
      <<Num(0), 0, 1>>, <<Num(1), 1, 1>>, <<Num(2), 2, 1>>, <<Num(3), 3, 1>>,
      <<Num(25), 25, 1>> }
Unparsable == {Absent, Null, Str(<<"x">>), Str(<< >>)}

IsLiteral(v) == \E l \in Literals : l[1] = v
\* the number a field value denotes, `sentinel` when it denotes none
Denotes(v, sentinel) ==
    IF IsLiteral(v)
    THEN LET l == CHOOSE l \in Literals : l[1] = v IN Rat(l[2], l[3])
    ELSE sentinel

Built(p) == page = p /\ err = "none"
Rows == 1..Len(df)

\* C4: normalization never raises, whatever the records: no script ends in
\* its normalization, a key absent from every record becoming the sentinel
\* like an unparsable value, and the table has a row for every record.
C4_NormalizationTotal ==
    (page # "none" /\ ~FetchFailed /\ raw # << >>) =>
        /\ stages # {"normalize"}
        /\ err = "none" => Len(df) = Len(raw)

\* C5: on the liquidity page depth and velocityMultiplier are finite numbers,
\* 0 for a value that denotes no number; on the summary page every field of
\* numeric_cols is the number its value denotes or not-a-number, never a 0
\* put in its place.
C5_SentinelPolicy ==
    /\ Built("liq") =>
          \A i \in Rows :
              /\ df[i].depth = Denotes(raw[i].depth, Zero)
              /\ df[i].velocityMultiplier = Denotes(raw[i].velocityMultiplier, Zero)
              /\ IsFin(df[i].depth) /\ IsFin(df[i].velocityMultiplier)
    /\ Built("sum") =>
          \A i \in Rows : \A c \in numeric_cols :
              /\ df[i][c] = Denotes(raw[i][c], NaN)
              /\ raw[i][c] \in Unparsable => IsNaN(df[i][c])

\* an unparsable depth became 0 next to a parsed velocityMultiplier
C5_Witness ==
    /\ Built("liq")
    /\ \E i \in Rows :
          /\ raw[i].depth \in Unparsable /\ df[i].depth = Zero
          /\ raw[i].velocityMultiplier = Str(<<"2">>) /\ df[i].velocityMultiplier.n = 2

\* C6: liquidityScore of a row is the product of that row's normalized depth
\* and velocityMultiplier, so 0 when either denotes no number.
C6_LiquidityScore ==
    Built("liq") =>
        \A i \in Rows :
            LET r == df[i]
            IN /\ IsFin(r.liquidityScore)
               /\ r.liquidityScore.n * r.depth.d * r.velocityMultiplier.d
                     = r.depth.n * r.velocityMultiplier.n * r.liquidityScore.d
               /\ (raw[i].depth \in Unparsable \/ raw[i].velocityMultiplier \in Unparsable)
                     => r.liquidityScore = Zero

\* a row with a score that is not 0 beside a row with an unparsable field
C6_Witness ==
    /\ Built("liq")
    /\ \E i, j \in Rows :
          /\ df[i].liquidityScore.n = 200
          /\ raw[j].depth \in Unparsable /\ df[j].liquidityScore = Zero

\* C7: efficiencyScore is liquidityScore / depth, which is the row's
\* velocityMultiplier, when depth > 0, and exactly 0 otherwise.
C7_EfficiencyScore ==
    Built("liq") =>
        \A i \in Rows :
            LET r == df[i]
            IN /\ r.depth.n > 0 =>
                     /\ r.efficiencyScore = r.velocityMultiplier
                     /\ r.efficiencyScore.n * r.depth.n * r.liquidityScore.d
                           = r.liquidityScore.n * r.depth.d * r.efficiencyScore.d
               /\ r.depth.n <= 0 => r.efficiencyScore = Zero

\* a row of depth 0 beside a row of positive depth
C7_Witness ==
    /\ Built("liq")
    /\ \E i, j \in Rows :
          /\ raw[i].depth = Str(<<"0">>) /\ df[i].efficiencyScore = Zero
          /\ df[j].depth.n > 0 /\ df[j].efficiencyScore.n = 2

\* C8: every row of liquidityScore 0 has undervaluedMetric +infinity, every
\* row of liquidityScore > 0 has depth / (liquidityScore + 1e-12).
C8_UndervaluedMetric ==
    Built("liq") =>
        \A i \in Rows :
            LET r == df[i]
            IN /\ r.liquidityScore.n = 0 => r.undervaluedMetric = EpsInf
               /\ r.liquidityScore.n > 0 =>
                     r.undervaluedMetric = [t |-> "quot", num |-> r.depth, den |-> r.liquidityScore]

\* two rows of liquidityScore 0 in one snapshot, for different reasons
C8_Witness ==
    /\ Built("liq")
    /\ \E i, j \in Rows :
          /\ i # j
          /\ df[i].depth.n = 0 /\ df[j].depth.n > 0
          /\ df[i].liquidityScore = Zero /\ df[j].liquidityScore = Zero
          /\ df[i].undervaluedMetric.t = "inf" /\ df[j].undervaluedMetric.t = "inf"

Scores == [i \in Rows |-> df[i].liquidityScore]
\* max(depth * velocityMultiplier, 1e-12) of a row
LogArg(r) ==
    IF r.depth.n * r.velocityMultiplier.n > 0
    THEN [eps |-> FALSE, x |-> r.liquidityScore]
    ELSE [eps |-> TRUE, x |-> Zero]
\* |v| <= 1e-8
Within1e8(v) == v.n = 0 \/ v.d \div AbsInt(v.n) >= 100000000

\* C9 as claimed: attractivenessIndex is ln(max(depth * velocityMultiplier,
\* 1e-12)) over the population variance of liquidityScore, which is replaced
\* by 1.0 when it is exactly zero and only then.
C9_ExactZeroFallback ==
    Built("liq") =>
        \A i \in Rows :
            df[i].attractivenessIndex =
                [t |-> "log", arg |-> LogArg(df[i]),
                 den |-> IF PopVar(Scores) = Zero THEN One ELSE PopVar(Scores)]

\* C9 amended: the population variance is replaced by 1.0 whenever it is
\* within 1e-8 of zero (np.isclose), not only when it is exactly zero; the
\* denominator is the same for every row.
C9_IsCloseFallback ==
    Built("liq") =>
        \A i \in Rows :
            df[i].attractivenessIndex =
                [t |-> "log", arg |-> LogArg(df[i]),
                 den |-> IF Within1e8(PopVar(Scores)) THEN One ELSE PopVar(Scores)]

\* two rows whose scores differ, with a variance within 1e-8 of zero
C9_Witness ==
    /\ Built("liq") /\ Len(df) >= 2
    /\ PopVar(Scores) # Zero
    /\ \A i \in Rows : df[i].attractivenessIndex.den = One
    /\ \E i \in Rows : ~df[i].attractivenessIndex.arg.eps

\* what the script did when its derive stage ran: no exception there, the
\* script went on to its presentation
DeriveRan == "derive" \in stages => stages = AllStages

SmoothedOnLiquidity ==
    Built("liq") =>
        \A i \in Rows :
            /\ df[i].riskIndex = [t |-> "quot", num |-> df[i].velocityMultiplier, den |-> df[i].depth]
            /\ df[i].stabilityScore = [t |-> "quot", num |-> df[i].depth, den |-> df[i].velocityMultiplier]

\* C10 as claimed: every division by a quantity that may be zero adds 1e-12 to
\* the denominator, efficiencyScore and undervaluedMetric alone excepted: so
\* does normalizedFunding of the summary page.
C10_EveryDivisionSmoothed ==
    /\ SmoothedOnLiquidity
    /\ DeriveRan
    /\ Built("sum") =>
          \A i \in Rows :
              (IsFin(df[i].fundingRate) /\ IsFin(df[i].throttledOraclePrice))
                  => df[i].normalizedFunding.t = "quot"

\* C10 amended: riskIndex and stabilityScore add 1e-12 to the denominator;
\* normalizedFunding adds nothing: a price of 0 is replaced by not-a-number,
\* so the quotient is not-a-number for a zero or missing price and the exact
\* quotient otherwise, never infinite; no derived column raises.
C10_ZeroDenominators ==
    /\ SmoothedOnLiquidity
    /\ DeriveRan
    /\ Built("sum") =>
          \A i \in Rows :
              LET r == df[i]
                  zero == IsFin(r.throttledOraclePrice) /\ r.throttledOraclePrice.n = 0
              IN /\ r.normalizedFunding.t \in {"fin", "nan"}
                 /\ (zero \/ ~IsFin(r.throttledOraclePrice)) => IsNaN(r.normalizedFunding)
                 /\ (IsFin(r.fundingRate) /\ IsFin(r.throttledOraclePrice) /\ ~zero) =>
                       /\ IsFin(r.normalizedFunding)
                       /\ r.normalizedFunding.n * r.throttledOraclePrice.n * r.fundingRate.d
                             = r.fundingRate.n * r.throttledOraclePrice.d * r.normalizedFunding.d

\* a row of depth 0 and positive velocityMultiplier: the denominator of
\* riskIndex is zero but for the 1e-12
C10_Witness ==
    /\ Built("liq")
    /\ \E i \in Rows :
          /\ df[i].depth = Zero /\ df[i].velocityMultiplier.n > 0
          /\ df[i].riskIndex.t = "quot" /\ df[i].riskIndex.den = Zero

(***************************************************************************)
(* The scenario of the liquidity page.                                      *)
(***************************************************************************)
ScenarioSnapshot == << LiqRec(Str(<<"BTCRUSDPERP">>), Str(<<"1", "0", "0">>), Str(<<"2">>)) >>

\* C11: the snapshot of the one record BTCRUSDPERP, depth "100",
\* velocityMultiplier "2" gives one row with liquidityScore 200,
\* efficiencyScore 2, stabilityScore 100 / (2 + 1e-12) and riskIndex
\* 2 / (100 + 1e-12), that is 50 and 0.02 but for the 1e-12.
C11_Scenario ==
    (Built("liq") /\ raw = ScenarioSnapshot) =>
        /\ Len(df) = 1
        /\ df[1].symbol = Str(<<"BTCRUSDPERP">>)
        /\ df[1].liquidityScore = Rat(200, 1)
        /\ df[1].efficiencyScore = Rat(2, 1)
        /\ df[1].stabilityScore.t = "quot"
        /\ RatDiv(df[1].stabilityScore.num, df[1].stabilityScore.den) = Rat(50, 1)
        /\ df[1].riskIndex.t = "quot"
        /\ RatDiv(df[1].riskIndex.num, df[1].riskIndex.den) = Rat(2, 100)

\* the scenario has been rendered
C11_Witness ==
    /\ Built("liq") /\ status = "ok" /\ stages = AllStages
    /\ raw = ScenarioSnapshot /\ Len(df) = 1

\* the columns of the fetched records in the summary table
SumNormalized == [i \in Rows |-> [c \in SumFields |-> df[i][c]]]

\* C12: coercing a normalized table once more changes no numeric column:
\* maxLeverage after the repeated coercion of the definitions page is what
\* the first coercion made of the fetched value, and ensure_numeric applied
\* to its own output gives that output, not-a-number cells included.
C12_Idempotent ==
    /\ Built("defs") =>
          /\ \A i \in Rows : df[i].maxLeverage = Denotes(raw[i].maxLeverage, NaN)
          /\ DefRecoerce(df) = df
    /\ Built("sum") => ensure_numeric(SumNormalized) = SumNormalized

\* a table of the definitions page with a parsed and a missing maxLeverage
C12_Witness ==
    /\ Built("defs")
    /\ \E i, j \in Rows :
          /\ raw[i].maxLeverage = Str(<<"2", "5">>) /\ df[i].maxLeverage = Rat(25, 1)
          /\ raw[j].maxLeverage \in Unparsable /\ IsNaN(df[j].maxLeverage)

\* x = y - z, for finite y and z
IsDifference(x, y, z) == IsFin(x) /\ x.n * y.d * z.d = (y.n * z.d - z.n * y.d) * x.d
\* x = y * z, for finite y and z
IsProduct(x, y, z) == IsFin(x) /\ x.n * y.d * z.d = y.n * z.n * x.d
\* x = y / z, for finite y and z, z not 0
IsQuotient(x, y, z) == IsFin(x) /\ x.n * z.n * y.d = y.n * z.d * x.d

\* C13: normalizedFunding is fundingRate / throttledOraclePrice for a price
\* that is a number other than 0 and not-a-number for a price of 0 or a
\* missing price; oiImbalance = longOiQty - shortOiQty, priceSpread =
\* throttledPoolPrice - throttledOraclePrice, fundingPressure = fundingRate *
\* oiImbalance and absPriceSpread = |priceSpread| >= 0 when their inputs are
\* numbers.
C13_DerivedMetrics ==
    Built("sum") =>
        \A i \in Rows :
            LET r == df[i]
                price == r.throttledOraclePrice
            IN /\ (IsFin(price) /\ price.n # 0 /\ IsFin(r.fundingRate)) =>
                     IsQuotient(r.normalizedFunding, r.fundingRate, price)
               /\ (~IsFin(price) \/ price.n = 0) => IsNaN(r.normalizedFunding)
               /\ r.normalizedFunding.t \in {"fin", "nan"}
               /\ (IsFin(r.longOiQty) /\ IsFin(r.shortOiQty)) =>
                     IsDifference(r.oiImbalance, r.longOiQty, r.shortOiQty)
               /\ (IsFin(r.throttledPoolPrice) /\ IsFin(price)) =>
                     IsDifference(r.priceSpread, r.throttledPoolPrice, price)
               /\ (IsFin(r.fundingRate) /\ IsFin(r.oiImbalance)) =>
                     IsProduct(r.fundingPressure, r.fundingRate, r.oiImbalance)
               /\ IsFin(r.priceSpread) =>
                     /\ IsFin(r.absPriceSpread)
                     /\ r.absPriceSpread.n >= 0
                     /\ r.absPriceSpread.d = r.priceSpread.d
                     /\ r.absPriceSpread.n \in {r.priceSpread.n, -r.priceSpread.n}

\* a row with a price of 0 beside a row with a negative spread and a
\* negative imbalance
C13_Witness ==
    /\ Built("sum")
    /\ \E i, j \in Rows :
          /\ df[i].fundingRate = One /\ df[i].throttledOraclePrice = Zero
          /\ IsNaN(df[i].normalizedFunding)
          /\ df[j].normalizedFunding = Rat(1, 2)
          /\ df[j].priceSpread = Rat(-1, 1) /\ df[j].absPriceSpread = One
          /\ df[j].oiImbalance = Rat(-1, 1) /\ df[j].fundingPressure = Rat(-1, 1)

\* the rows of the table that hold a number in column col
Present(col) == {i \in Rows : IsFin(df[i][col])}

RECURSIVE SumOver(_, _)
SumOver(S, col) ==
    IF S = {} THEN Zero
    ELSE LET i == CHOOSE i \in S : TRUE
         IN RatAdd(df[i][col], SumOver(S \ {i}, col))

IsTotalOf(total, col) ==
    IF Present(col) = {} THEN IsNaN(total) ELSE total = SumOver(Present(col), col)

\* C14: each of the four totals of the summary page is the sum of the values
\* present in its column over all rows of the current table, and
\* not-a-number, not 0, when the column holds no value or the table no row.
C14_Totals ==
    (page = "sum" /\ ~FetchFailed) =>
        /\ Len(df) = Len(raw)
        /\ IsTotalOf(kpi.total_volume_24h, "volume24h")
        /\ IsTotalOf(kpi.total_oi, "oiQty")
        /\ IsTotalOf(kpi.total_long_oi, "longOiQty")
        /\ IsTotalOf(kpi.total_short_oi, "shortOiQty")

\* two rows: a column with one value missing, a column with every value
\* missing
C14_Witness ==
    /\ Built("sum") /\ Len(df) = 2
    /\ Cardinality(Present("longOiQty")) = 1 /\ kpi.total_long_oi = Rat(2, 1)
    /\ Present("volume24h") = {} /\ IsNaN(kpi.total_volume_24h)
    /\ kpi.total_short_oi = Rat(6, 1)

\* the timestamps of the pools that are a whole number of milliseconds, with
\* the instant each denotes: <<value, seconds, milliseconds>>
TsLiterals ==
    { <<Num(1500), 1, 500>>, <<Str(<<"2", "0", "0", "0">>), 2, 0>>,
      <<Str(<<"1", "7", "0", "0", "0", "0", "0", "0", "0", "0", "1", "2", "3">>), 1700000000, 123>> }
IsTsLiteral(v) == \E l \in TsLiterals : l[1] = v
TsOf(v) == CHOOSE l \in TsLiterals : l[1] = v
ColumnExists(col) == \E j \in 1..Len(raw) : raw[j][col] # Absent

\* C15 as claimed: a timestamp that cannot be converted becomes the empty
\* string, any other the date and time of its milliseconds cut to whole
\* seconds.
C15_EmptyStringSentinel ==
    Built("sum") =>
        \A i \in Rows : \A c \in TsDerived :
            LET v == raw[i][ColumnOfDt[c]]
            IN ColumnExists(ColumnOfDt[c]) =>
                  IF IsTsLiteral(v) THEN df[i][c] = DateTime(TsOf(v)[2], 0)
                  ELSE df[i][c] = Str(<< >>)

\* C15 amended: the conversion never raises (the script always gets past
\* it); a timestamp that int() does not take (null, missing, a string that
\* is not [-]digits) or that is out of range becomes pd.NaT, any other the
\* date and time of its milliseconds, the milliseconds kept; without the
\* column there is no converted column.
C15_NaTSentinel ==
    /\ (page = "sum" /\ ~FetchFailed) => stages = AllStages
    /\ Built("sum") =>
          \A i \in Rows : \A c \in TsDerived :
              LET v == raw[i][ColumnOfDt[c]]
              IN IF ~ColumnExists(ColumnOfDt[c]) THEN df[i][c] = NoColumn
                 ELSE IF IsTsLiteral(v)
                      THEN df[i][c] = DateTime(TsOf(v)[2], TsOf(v)[3] * 1000)
                      ELSE df[i][c] = NaT

\* a timestamp with milliseconds beside one that is no integer
C15_Witness ==
    /\ Built("sum")
    /\ \E i, j \in Rows :
          /\ df[i].updatedAt_dt = DateTime(1700000000, 123000)
          /\ raw[j].updatedAt = Str(<<"1", "2", ".", "5">>) /\ df[j].updatedAt_dt = NaT
          /\ df[j].pricesUpdatedAt_dt = DateTime(2, 0)

(***************************************************************************)
(* Frame conditions.                                                        *)
(***************************************************************************)
\* C16: a render changes nothing upstream of the table it builds: after a
\* render that fetched or was served from the slot, the slot and the array
\* the script holds are the records as they were fetched; a render served
\* from the slot leaves the slot as it was and starts from the records in it,
\* so two renders on one entry start from the same records.
C16_UpstreamUnchanged ==
    [][\A p \in Pages :
        IsRenderOf(p) =>
            /\ err' \notin AllFailureKinds =>
                  /\ cache'[p].data = lastFetch'[p].data
                  /\ raw' = lastFetch'[p].data
                  /\ lastFetch'[p].data \in Served(p)
            /\ CacheHit(p) =>
                  /\ cache'[p] = cache[p]
                  /\ lastFetch'[p] = lastFetch[p]
                  /\ raw' = cache[p].data]_vars

\* a render of the summary page served from the slot, the table built
C16_Witness ==
    /\ page = "sum" /\ status = "ok" /\ nreq = 0
    /\ Len(df) = 2 /\ IsNaN(df[2].fundingRate)
    /\ cache["sum"].data = lastFetch["sum"].data
    /\ raw = cache["sum"].data /\ raw[2].fundingRate = Null

\* C17: a render of one page leaves the slots and the fetch times of the
\* other two endpoints as they were, whether it fetched, was served from its
\* slot or failed; whether it issues a request depends on its own slot alone;
\* the passing of time changes no slot.
C17_IndependentSlots ==
    [][/\ \A p \in Pages :
            IsRenderOf(p) =>
                /\ \A q \in Pages \ {p} :
                      cache'[q] = cache[q] /\ lastFetch'[q] = lastFetch[q]
                /\ nreq' = IF CacheHit(p) THEN 0 ELSE 1
       /\ now' # now => cache' = cache /\ lastFetch' = lastFetch]_vars

\* the summary slot has expired and is fetched again while the slots of the
\* other two endpoints are still valid
C17_Witness ==
    /\ page = "sum" /\ nreq = 1 /\ status = "ok"
    /\ lastFetch["sum"].at > 0
    /\ cache["liq"].valid /\ now < cache["liq"].expires /\ lastFetch["liq"].at = 0
    /\ cache["defs"].valid /\ now < cache["defs"].expires

(***************************************************************************)
(* Rescaling of depth.                                                      *)
(***************************************************************************)
\* the constants k > 0 tried: 2 and 1e-12
ScaleFactors == {Rat(2, 1), RatU(1, 1, 1)}

\* the derived table of the snapshot with every depth multiplied by k
Scaled(k) ==
    LiqDerive([i \in Rows |->
        [symbol |-> df[i].symbol,
         depth |-> RatMul(df[i].depth, k),
         velocityMultiplier |-> df[i].velocityMultiplier]])

\* x < y for two numbers of one table
NumLess(x, y) ==
    LET a == InUnit(x, MaxUnit(x, y))
        b == InUnit(y, MaxUnit(x, y))
    IN a.n * b.d < b.n * a.d

\* attractivenessIndex of row r below that of row q, both of one table: the
\* logarithm grows with its argument, the denominator is shared and
\* positive, and an argument that is not the floor 1e-12 exceeds it
AttrLess(r, q) ==
    LET a == r.attractivenessIndex.arg
        b == q.attractivenessIndex.arg
    IN CASE a.eps /\ b.eps -> FALSE
         [] a.eps /\ ~b.eps -> Exceeds1e12(b.x)
         [] ~a.eps /\ b.eps -> ~Exceeds1e12(a.x) /\ a.x # RatU(1, 1, 1)
         [] OTHER -> NumLess(a.x, b.x)

SharedPositiveDen(t) ==
    \A i \in 1..Len(t) :
        /\ t[i].attractivenessIndex.den = t[1].attractivenessIndex.den
        /\ RatGt0(t[i].attractivenessIndex.den)

SameRanking(t1, t2) ==
    \A i, j \in 1..Len(t1) : AttrLess(t1[i], t1[j]) <=> AttrLess(t2[i], t2[j])

\* no positive depth * velocityMultiplier of the table is at or below 1e-12
AboveFloor(t) ==
    \A i \in 1..Len(t) :
        RatGt0(RatMul(t[i].depth, t[i].velocityMultiplier))
            => Exceeds1e12(RatMul(t[i].depth, t[i].velocityMultiplier))

\* C18 as claimed: multiplying every depth by a constant k > 0 leaves the
\* order of the rows by attractivenessIndex as it was, ties and strict
\* orders alike, for any snapshot.
C18_RankingAnyScale ==
    Built("liq") =>
        \A k \in ScaleFactors :
            /\ SharedPositiveDen(df) /\ SharedPositiveDen(Scaled(k))
            /\ SameRanking(df, Scaled(k))

\* C18 amended: the order is kept when no positive depth *
\* velocityMultiplier is at or below the floor 1e-12 of the logarithm's
\* argument, before and after the rescaling.
C18_RankingAboveFloor ==
    Built("liq") =>
        \A k \in ScaleFactors :
            /\ SharedPositiveDen(df) /\ SharedPositiveDen(Scaled(k))
            /\ (AboveFloor(df) /\ AboveFloor(Scaled(k))) => SameRanking(df, Scaled(k))

\* two rows in strict order whose values change under the rescaling by 2
\* while their order stays
C18_Witness ==
    /\ Built("liq") /\ Len(df) = 2
    /\ df[1].liquidityScore.n > 0 /\ df[2].liquidityScore.n > 0
    /\ AttrLess(df[1], df[2])
    /\ AboveFloor(df) /\ AboveFloor(Scaled(Rat(2, 1)))
    /\ AttrLess(Scaled(Rat(2, 1))[1], Scaled(Rat(2, 1))[2])
    /\ Scaled(Rat(2, 1))[1].attractivenessIndex # df[1].attractivenessIndex

\* what the script of the rendered page makes of an array, nothing else given
FromSnapshot(arr) ==
    CASE page = "defs" -> DefinitionsPage(arr)
      [] page = "liq" -> LiquidityPage(arr)
      [] page = "sum" -> SummaryPage(arr)

KpisShown == page = "defs" /\ ~FetchFailed /\ err \in {"none", "IndexError"}
Records == 1..Len(raw)
\* the rows whose fetched maxLeverage denotes a number
Parsable == {i \in Records : IsLiteral(raw[i].maxLeverage)}
LeverageOf(i) == Denotes(raw[i].maxLeverage, NaN)
\* the rows at the maximum
AtMax == {i \in Parsable : LeverageOf(i) = kpi.max_leverage_value}
Occurrences(seq, x) == Cardinality({i \in 1..Len(seq) : seq[i] = x})

\* C20: Maximum Leverage Offered is the largest maxLeverage that denotes a
\* number; the markets listed with it are the symbols of exactly the rows
\* whose maxLeverage equals it, so a row with an unparsable maxLeverage is
\* neither listed nor counted in the maximum; Total Markets is the number
\* of distinct symbols.  Without any parsable maxLeverage there is no
\* maximum and no market is listed.
C20_MaxLeverageKpi ==
    KpisShown =>
        /\ Parsable = {} => IsNaN(kpi.max_leverage_value) /\ kpi.markets_with_max = << >>
        /\ Parsable # {} =>
              /\ \E m \in Parsable : kpi.max_leverage_value = LeverageOf(m)
              /\ \A i \in Parsable : ~NumLess(kpi.max_leverage_value, LeverageOf(i))
              /\ Len(kpi.markets_with_max) = Cardinality(AtMax)
              /\ \A i \in Records :
                    Occurrences(kpi.markets_with_max, raw[i].symbol)
                        = Cardinality({j \in AtMax : raw[j].symbol = raw[i].symbol})
        /\ kpi.total_markets = Cardinality({raw[i].symbol : i \in Records} \ {Null, Absent})

\* two rows of one symbol, the smaller leverage first; and the maximum
\* beside an unparsable value is covered by the rows of the pools
C20_Witness ==
    /\ Built("defs") /\ Len(df) = 2
    /\ raw[1].maxLeverage = Str(<<"1", "0">>) /\ raw[2].maxLeverage = Num(25)
    /\ raw[1].symbol = raw[2].symbol
    /\ kpi.max_leverage_value = Rat(25, 1)
    /\ kpi.markets_with_max = << raw[2].symbol >>
    /\ kpi.total_markets = 1

\* C21: a failed fetch is never memoized: the render whose fetch raised
\* leaves the slot of its endpoint as it was before the call, so the slot
\* holds no error and no partial array (it is empty, or holds the whole
\* array of the last successful fetch, expired), and the next render of that
\* page issues a new request, also within the TTL of the failed attempt.
C21_FailureNotMemoized ==
    [][\A p \in Pages :
        IsRenderOf(p) =>
            /\ err' \in AllFailureKinds =>
                  /\ cache'[p] = cache[p]
                  /\ lastFetch'[p] = lastFetch[p]
                  /\ ~(cache'[p].valid /\ now' < cache'[p].expires)
                  /\ IF cache'[p].valid
                     THEN cache'[p].data = lastFetch[p].data /\ cache'[p].data \in Served(p)
                     ELSE cache'[p] = NoEntry
            /\ (page = p /\ err \in AllFailureKinds) => nreq' = 1]_vars

\* the first fetch of the definitions endpoint failed some time after the
\* start: the slot is still empty and nothing was ever fetched
C21_Witness ==
    /\ FetchFailed /\ page = "defs" /\ status = "raised" /\ nreq = 1
    /\ now > 0 /\ now < TTLDefinitions
    /\ cache["defs"] = NoEntry /\ lastFetch["defs"] = NoFetch

\* C22: a successful fetch that returns the empty array is a valid snapshot
\* on every page: the script runs all its stages without raising and ends
\* with an empty table and zero markets.
C22_EmptyArrayValid ==
    (page # "none" /\ ~FetchFailed /\ raw = << >>) =>
        /\ err = "none" /\ status = "ok"
        /\ stages = AllStages
        /\ df = << >>
        /\ kpi.total_markets = 0

====
